---- MODULE Spec2Model ----
(***************************************************************************)
(* Model of the trajectory/excitation analysis code of the MD viewer       *)
(* (src/app/static/js/viewer.js, src/app/static/js/dmabn_charts.js).       *)
(*                                                                         *)
(* Numbers.  JavaScript numbers are modelled as exact rationals.  Stored   *)
(* values are integers in fixed units: times in fs, oscillator strengths   *)
(* in 1/100, energies in 1/10 eV, twist angles in degrees, coordinates and *)
(* bond thresholds in 1/10 Angstrom.  A value computed by interpolation is *)
(* kept as a numerator over the record's common denominator den.           *)
(*                                                                         *)
(* Objects.  A stored excitation sample is identified by its index in the  *)
(* series (1-based); index 0 stands for null.                              *)
(***************************************************************************)
EXTENDS Integers, Sequences, FiniteSets, TLC

VARIABLES
    \* MolecularCharts (temporal aligner)
    excitationData,      \* MolecularCharts.excitationData: the stored series
    call,                \* the query last evaluated: [op, t]
    returned,            \* the value that query returned
    \* DMABN correlation (createDMABNChart)
    geometryData,        \* window.dmabnCharts.geometryData
    dmabnExcitationData, \* window.dmabnCharts.excitationData
    correlationData,     \* the correlationData array built by the last chart build
    binData,             \* window.dmabnCharts.binData: <<>> while undefined, <<bins>> once set
    \* MolecularViewer (bond inference)
    atoms,               \* firstFrame.atoms
    coords,              \* firstFrame.coords
    bondMeshes,          \* MolecularViewer.bondMeshes (the atomIndices of each entry)
    bondsCreated,        \* TRUE once createBonds has run on the frame
    \* DMABN analysis request (showGeometryTimeline, showGeometryChart)
    chartPopup,          \* TRUE once the element geometry-chart-popup exists
    chartTimers,         \* pending setTimeout(createDMABNChart) callbacks
    chartBuild,          \* the activation of createDMABNChart: [pc, i, binData]
    \* MolecularCharts (display ceiling, spectrum synthesis)
    globalYAxisMax,      \* MolecularCharts.globalYAxisMax, in 1/100000; <<>> while null
    spectrum,            \* the intensities last synthesized: [den, values]
    chartTrajectoryData, \* MolecularCharts.trajectoryData; <<>> while null
    \* MolecularViewer (loading and frame changes)
    trajectoryData,      \* MolecularViewer.trajectoryData; <<>> while null
    viewerExcitationData,\* MolecularViewer.excitationData; <<>> while null
    currentFrame,        \* MolecularViewer.currentFrame
    loadResult,          \* what loadData returned; <<>> while it has not returned
    errorShown,          \* TRUE once showError has been called
    \* MolecularViewer (playback)
    isPlaying,           \* MolecularViewer.isPlaying
    playTimers,          \* pending setTimeout callbacks scheduled by playLoop
    activations,         \* history: activations of the play control since the viewer
                         \* was last paused by something else (or constructed)
    \* The charts of the viewer page (initializeCharts, MolecularCharts)
    chartsInitialized,   \* TRUE once the global molecularCharts holds an object
    spectrumChart,       \* MolecularCharts.spectrumChart: <<>> while null, else <<[frame, sample]>>
    energyChart,         \* TRUE while MolecularCharts.energyChart holds a chart
    noExcitationMessage, \* TRUE while the element no-excitation-message exists
    spectrumRequested,   \* history: createSpectrumChart() has been called
    requestedAfterLoad,  \* history: a chart was requested after loadData had succeeded
    \* The upload page (main.js)
    selectedFiles,       \* the selectedFiles array
    screen,              \* what uploadArea currently shows
    uploadsInFlight,     \* /api/upload requests awaiting their outcome
    processTimers,       \* pending setTimeout(processFiles) callbacks
    processInFlight,     \* /api/process requests of processFiles awaiting their outcome
    viewerChecks,        \* HEAD /viewer requests of openViewer awaiting their outcome
    statusChecks,        \* checkServerStatus calls awaiting their three outcomes
    processRequests,     \* history: the sender of each /api/process request so far
    uploadSuccesses      \* history: /api/upload requests that returned success

alignerVars  == <<excitationData, call, returned>>
binnerVars   == <<geometryData, dmabnExcitationData, correlationData, binData>>
bondVars     == <<atoms, coords, bondMeshes, bondsCreated>>
analysisVars == <<chartPopup, chartTimers, chartBuild>>
chartVars    == <<globalYAxisMax, spectrum, chartTrajectoryData>>
playbackVars == <<isPlaying, playTimers, activations>>
viewerVars   == <<trajectoryData, viewerExcitationData, currentFrame, loadResult, errorShown,
                  isPlaying, playTimers, activations>>
chartPageVars == <<chartsInitialized, spectrumChart, energyChart, noExcitationMessage,
                   spectrumRequested, requestedAfterLoad>>
uploadVars   == <<selectedFiles, screen, uploadsInFlight, processTimers, processInFlight,
                  viewerChecks, statusChecks, processRequests, uploadSuccesses>>
vars         == <<excitationData, call, returned,
                  geometryData, dmabnExcitationData, correlationData, binData,
                  atoms, coords, bondMeshes, bondsCreated,
                  chartPopup, chartTimers, chartBuild,
                  globalYAxisMax, spectrum, chartTrajectoryData,
                  trajectoryData, viewerExcitationData, currentFrame, loadResult, errorShown,
                  isPlaying, playTimers, activations,
                  chartsInitialized, spectrumChart, energyChart, noExcitationMessage,
                  spectrumRequested, requestedAfterLoad,
                  selectedFiles, screen, uploadsInFlight, processTimers, processInFlight,
                  viewerChecks, statusChecks, processRequests, uploadSuccesses>>

-----------------------------------------------------------------------------
(* Bounds of the model *)

\* Longest excitation series the aligner is checked on.
MaxSamples == 3

\* Times (fs) at which excitation samples may be stored, and query times.
SampleTimes == {0, 50, 100, 150, 200}
QueryTimes  == {-50, 0, 50, 75, 100, 150, 200, 250, 300}

\* Values a stored sample may carry (energies in 1/10 eV, oscillators in 1/100).
SampleValues ==
    { [s1_energy |-> 40, s1_oscillator |-> 10, s2_energy |-> 50, s2_oscillator |-> 40],
      [s1_energy |-> 42, s1_oscillator |-> 30, s2_energy |-> 48, s2_oscillator |-> 20],
      [s1_energy |-> 38, s1_oscillator |-> 50, s2_energy |-> 52, s2_oscillator |-> 10],
      [s1_energy |-> 40, s1_oscillator |-> 20, s2_energy |-> 50, s2_oscillator |-> 20] }

\* Longest geometry series and excitation series the binner is checked on.
MaxFrames == 3
MaxBinSamples == 2

\* time_fs of the geometry frames, by position in geometryData.
GeomTimes == <<0, 25, 50, 75, 100>>

\* JavaScript values a numeric field of the loaded data may hold.
Num(n)    == [type |-> "number", val |-> n]
NaN       == [type |-> "NaN", val |-> 0]
Undefined == [type |-> "undefined", val |-> 0]

\* Descriptor values a geometry frame may carry (degrees; planarity in 1/100).
GeomValues ==
    { [twist_angle |-> Num(0),    ring_planarity |-> 1],
      [twist_angle |-> Num(2),    ring_planarity |-> 3],
      [twist_angle |-> Num(3),    ring_planarity |-> 2],
      [twist_angle |-> Num(5),    ring_planarity |-> 1],
      [twist_angle |-> Num(10),   ring_planarity |-> 4],
      [twist_angle |-> Undefined, ring_planarity |-> 2] }

\* Times (fs) of the excitation samples the binner is checked on.
BinSampleTimes == {0, 50, 100}

\* Largest molecule bond inference is checked on.
MaxAtoms == 3

\* Element symbols and positions (1/10 Angstrom) an atom may have.
AtomSymbols == {"C", "H"}
PositionSet ==
    { <<0, 0, 0>>, <<10, 0, 0>>, <<12, 0, 0>>, <<25, 0, 0>>, <<0, 18, 0>>, <<0, 9, 12>> }

\* Times (fs) and values of the samples the display ceiling is checked on
\* (energies in 1/10 eV, oscillators in 1/100).
ChartSampleTimes == {0, 100}
ChartSampleValues ==
    { [s1_energy |-> 40, s1_oscillator |-> 0,   s2_energy |-> 50, s2_oscillator |-> 0],
      [s1_energy |-> 40, s1_oscillator |-> 5,   s2_energy |-> 50, s2_oscillator |-> 30],
      [s1_energy |-> 40, s1_oscillator |-> 30,  s2_energy |-> 41, s2_oscillator |-> 30],
      [s1_energy |-> 40, s1_oscillator |-> 150, s2_energy |-> 50, s2_oscillator |-> 10],
      [s1_energy |-> 40, s1_oscillator |-> 120, s2_energy |-> 41, s2_oscillator |-> 120],
      [s1_energy |-> 40, s1_oscillator |-> 510, s2_energy |-> 50, s2_oscillator |-> 20] }

\* Times (fs) a spectrum is synthesized for.
SpectrumTimes == {-50, 0, 50, 100, 300}

\* A trajectory frame.
Frame(a, c, t) == [atoms |-> a, coords |-> c, time_fs |-> t]

\* Longest trajectory a load response carries.
MaxTrajFrames == 3

\* Atom lists and coordinate lists of the frames of a response: two atoms
\* with two positions, and one and three atoms with two positions.
ViewerAtomLists == { <<"C", "H">>, <<"C", "C">>, <<"C">>, <<"C", "H", "H">> }
ViewerCoordLists ==
    { <<(<<0, 0, 0>>), (<<10, 0, 0>>)>>,
      <<(<<0, 0, 0>>), (<<12, 0, 0>>)>>,
      <<(<<0, 0, 0>>), (<<25, 0, 0>>)>> }

\* Most playback timers pending at once, and most activations of the play
\* control counted in a row.
MaxPlayTimers == 3
MaxActivations == 4

\* Frames of the trajectory the charts of the viewer page are checked on (at
\* 0.5 fs per frame it passes the 5000 fs excitation start), the frames the
\* slider is moved to (even, so that their times are whole fs), and the times
\* (fs) of the excitation samples that come with it.
LongTrajectoryFrames == 10401
SpectrumFrames == {0, 9998, 10000, 10100, 10200, 10400}
PageSampleTimes == <<5000, 5100, 5300>>

\* Most files one selection or drop carries, and most /api/process requests
\* a page is followed through.
MaxDropped == 2
MaxProcessRequests == 3

\* File names as strings of characters, and the files a user may select
\* (sizes in MB): the required coors.xyz, the same name in capitals and with
\* a trailing blank, and s1.dat within and beyond the size limit.
NameCoors       == <<"c", "o", "o", "r", "s", ".", "x", "y", "z">>
NameCoorsUpper  == <<"C", "O", "O", "R", "S", ".", "X", "Y", "Z">>
NameCoorsPadded == <<"c", "o", "o", "r", "s", ".", "x", "y", "z", " ">>
NameS1          == <<"s", "1", ".", "d", "a", "t">>
UploadFileSet ==
    { [name |-> NameCoors, size |-> 1], [name |-> NameCoorsUpper, size |-> 2],
      [name |-> NameCoorsPadded, size |-> 1],
      [name |-> NameS1, size |-> 1], [name |-> NameS1, size |-> 101] }

\* Trajectories handed to MolecularCharts.setData.
ChartTrajectories ==
    { <<Frame(<<"C", "H">>, <<(<<0, 0, 0>>), (<<10, 0, 0>>)>>, 0),
        Frame(<<"C", "H">>, <<(<<0, 0, 0>>), (<<25, 0, 0>>)>>, 1)>> }

-----------------------------------------------------------------------------
(* Helpers *)

Abs(x) == IF x < 0 THEN -x ELSE x

Min(S) == CHOOSE x \in S : \A y \in S : x <= y

Max(S) == CHOOSE x \in S : \A y \in S : y <= x

Range(s) == {s[i] : i \in 1..Len(s)}

\* A nullable value: Null, or Some(v).
Null == <<>>
Some(v) == <<v>>

-----------------------------------------------------------------------------
(* Temporal aligner: MolecularCharts *)

Sample(t, v) ==
    [time_fs |-> t, s1_energy |-> v.s1_energy, s1_oscillator |-> v.s1_oscillator,
     s2_energy |-> v.s2_energy, s2_oscillator |-> v.s2_oscillator]

SampleSet == {Sample(t, v) : t \in SampleTimes, v \in SampleValues}

\* Series are strictly time-ordered (spec.md section 3, invariants).
StrictlyOrdered(s) == \A i \in 1..(Len(s) - 1) : s[i].time_fs < s[i + 1].time_fs

SeriesSet ==
    UNION { {s \in [1..n -> SampleSet] : StrictlyOrdered(s)} : n \in 0..MaxSamples }

\* The series of the end-to-end example of spec.md section 8.
ExampleSeries ==
    << [time_fs |-> 0,   s1_energy |-> 40, s1_oscillator |-> 10, s2_energy |-> 50, s2_oscillator |-> 40],
       [time_fs |-> 100, s1_energy |-> 40, s1_oscillator |-> 30, s2_energy |-> 50, s2_oscillator |-> 20],
       [time_fs |-> 200, s1_energy |-> 40, s1_oscillator |-> 50, s2_energy |-> 50, s2_oscillator |-> 10],
       [time_fs |-> 300, s1_energy |-> 40, s1_oscillator |-> 20, s2_energy |-> 50, s2_oscillator |-> 30],
       [time_fs |-> 400, s1_energy |-> 40, s1_oscillator |-> 5,  s2_energy |-> 50, s2_oscillator |-> 50] >>

\* The forEach scan shared by every nearest-sample lookup: keeps the first
\* sample whose |time_fs - timeFs| is strictly below the running minimum.
\* minDiff starts at Infinity, which is the case closest = 0.
RECURSIVE closestScan(_, _, _, _)
closestScan(data, timeFs, i, acc) ==
    IF i > Len(data) THEN acc
    ELSE LET diff == Abs(data[i].time_fs - timeFs)
         IN  closestScan(data, timeFs, i + 1,
                 IF acc.closest = 0 \/ diff < acc.minDiff
                 THEN [closest |-> i, minDiff |-> diff]
                 ELSE acc)

closestOf(data, timeFs) == closestScan(data, timeFs, 1, [closest |-> 0, minDiff |-> 0])

\* The proximity gate of the nearest-sample lookups.
NearestGapFs == 100

\* A freshly built object no query has filled in.
NoObject ==
    [time_fs |-> 0, time_ps |-> <<0, 1000>>, den |-> 1,
     s1_energy |-> 0, s1_oscillator |-> 0, s2_energy |-> 0, s2_oscillator |-> 0,
     energy_gap |-> 0, interpolated |-> FALSE]

\* What a lookup returns: null, a stored sample (by index), or a new object.
ReturnNull        == [kind |-> "null",   index |-> 0, obj |-> NoObject]
ReturnStored(i)   == IF i = 0 THEN ReturnNull
                     ELSE [kind |-> "stored", index |-> i, obj |-> NoObject]
ReturnNew(o)      == [kind |-> "new",    index |-> 0, obj |-> o]

\* MolecularCharts.findClosestExcitation(timeFs)
findClosestExcitation(data, timeFs) ==
    LET r == closestOf(data, timeFs)
    IN  IF r.closest # 0 /\ r.minDiff < NearestGapFs
        THEN ReturnStored(r.closest) ELSE ReturnNull

\* lerp with the fraction taken from the query time alone (before.time_fs not subtracted).
lerpFromZero(bf, af, before, after, targetTimeFs) ==
    bf * (after.time_fs - before.time_fs) + targetTimeFs * (af - bf)

\* before.f + fraction * (after.f - before.f) with
\* fraction = (targetTimeFs - before.time_fs) / timeDiff, as a numerator over timeDiff.
lerp(bf, af, before, after, targetTimeFs) ==
    bf * (after.time_fs - before.time_fs) + (targetTimeFs - before.time_fs) * (af - bf)

\* interpolate with s2_oscillator computed from the s1_oscillator fields.
interpolateCopiedField(before, after, targetTimeFs) ==
    LET s1e == lerp(before.s1_energy, after.s1_energy, before, after, targetTimeFs)
        s2e == lerp(before.s2_energy, after.s2_energy, before, after, targetTimeFs)
    IN  [time_fs |-> targetTimeFs,
         time_ps |-> <<targetTimeFs, 1000>>,
         den |-> after.time_fs - before.time_fs,
         s1_energy |-> s1e,
         s1_oscillator |-> lerp(before.s1_oscillator, after.s1_oscillator, before, after, targetTimeFs),
         s2_energy |-> s2e,
         s2_oscillator |-> lerp(before.s1_oscillator, after.s1_oscillator, before, after, targetTimeFs),
         energy_gap |-> s2e - s1e,
         interpolated |-> TRUE]

interpolate(before, after, targetTimeFs) ==
    LET s1e == lerp(before.s1_energy, after.s1_energy, before, after, targetTimeFs)
        s2e == lerp(before.s2_energy, after.s2_energy, before, after, targetTimeFs)
    IN  [time_fs |-> targetTimeFs,
         time_ps |-> <<targetTimeFs, 1000>>,
         den |-> after.time_fs - before.time_fs,
         s1_energy |-> s1e,
         s1_oscillator |-> lerp(before.s1_oscillator, after.s1_oscillator, before, after, targetTimeFs),
         s2_energy |-> s2e,
         s2_oscillator |-> lerp(before.s2_oscillator, after.s2_oscillator, before, after, targetTimeFs),
         energy_gap |-> s2e - s1e,
         interpolated |-> TRUE]

\* The first i with data[i].time_fs <= t <= data[i+1].time_fs, 0 when the loop finds none.
beforeIndexOf(data, targetTimeFs) ==
    LET S == {i \in 1..(Len(data) - 1) :
                 data[i].time_fs <= targetTimeFs /\ data[i + 1].time_fs >= targetTimeFs}
    IN  IF S = {} THEN 0 ELSE Min(S)

\* findClosestExcitationData with the upper clamp indexing one sample too low.
findClosestExcitationDataOffByOne(data, targetTimeFs) ==
    IF Len(data) = 0 THEN ReturnNull
    ELSE IF targetTimeFs < data[1].time_fs THEN ReturnStored(1)
    ELSE IF targetTimeFs > data[Len(data)].time_fs THEN ReturnStored(Len(data) - 1)
    ELSE LET beforeIndex == beforeIndexOf(data, targetTimeFs)
         IN  IF beforeIndex = 0
             THEN ReturnStored(closestOf(data, targetTimeFs).closest)
             ELSE ReturnNew(interpolate(data[beforeIndex], data[beforeIndex + 1], targetTimeFs))

\* MolecularCharts.findClosestExcitationData(targetTimeFs)
findClosestExcitationData(data, targetTimeFs) ==
    IF Len(data) = 0 THEN ReturnNull
    ELSE IF targetTimeFs < data[1].time_fs THEN ReturnStored(1)
    ELSE IF targetTimeFs > data[Len(data)].time_fs THEN ReturnStored(Len(data))
    ELSE LET beforeIndex == beforeIndexOf(data, targetTimeFs)
         IN  IF beforeIndex = 0
             THEN ReturnStored(closestOf(data, targetTimeFs).closest)
             ELSE ReturnNew(interpolate(data[beforeIndex], data[beforeIndex + 1], targetTimeFs))

AlignerIdle ==
    /\ excitationData = <<>>
    /\ call = [op |-> "none", t |-> 0]
    /\ returned = ReturnNull

BinnerIdle ==
    /\ geometryData = <<>>
    /\ dmabnExcitationData = <<>>
    /\ correlationData = <<>>
    /\ binData = Null

BondIdle ==
    /\ atoms = <<>>
    /\ coords = <<>>
    /\ bondMeshes = <<>>
    /\ bondsCreated = FALSE

\* createDMABNChart is not running.
NoChartBuild == [pc |-> "idle", i |-> 0, binData |-> <<>>]

AnalysisIdle ==
    /\ chartPopup = FALSE
    /\ chartTimers = 0
    /\ chartBuild = NoChartBuild

NoSpectrum == [den |-> 1, values |-> <<>>]

\* The viewer page before any chart has been requested.
ChartPageIdle ==
    /\ chartsInitialized = FALSE
    /\ spectrumChart = Null
    /\ energyChart = FALSE
    /\ noExcitationMessage = FALSE
    /\ spectrumRequested = FALSE
    /\ requestedAfterLoad = FALSE

ChartIdle ==
    /\ globalYAxisMax = Null
    /\ spectrum = NoSpectrum
    /\ chartTrajectoryData = Null
    /\ ChartPageIdle

\* The upload page as loaded: no file selected, nothing sent.
UploadIdle ==
    /\ selectedFiles = <<>>
    /\ screen = "initial"
    /\ uploadsInFlight = 0
    /\ processTimers = 0
    /\ processInFlight = 0
    /\ viewerChecks = 0
    /\ statusChecks = 0
    /\ processRequests = <<>>
    /\ uploadSuccesses = 0

ViewerIdle ==
    /\ trajectoryData = Null
    /\ viewerExcitationData = Null
    /\ currentFrame = 0
    /\ loadResult = Null
    /\ errorShown = FALSE
    /\ isPlaying = FALSE
    /\ playTimers = 0
    /\ activations = 0

\* A series has been loaded into MolecularCharts; no query has run yet.
InitAligner ==
    /\ excitationData \in SeriesSet \cup {ExampleSeries}
    /\ call = [op |-> "none", t |-> 0]
    /\ returned = ReturnNull
    /\ BinnerIdle
    /\ BondIdle
    /\ AnalysisIdle
    /\ ChartIdle
    /\ ViewerIdle
    /\ UploadIdle

\* find_sample: one evaluation of findClosestExcitationData.
FindSample ==
    \E t \in QueryTimes :
        /\ call' = [op |-> "find_sample", t |-> t]
        /\ returned' = findClosestExcitationData(excitationData, t)
        /\ UNCHANGED <<excitationData, binnerVars, bondVars, analysisVars, chartVars, viewerVars, chartPageVars, uploadVars>>

\* find_nearest: one evaluation of findClosestExcitation.
FindNearest ==
    \E t \in QueryTimes :
        /\ call' = [op |-> "find_nearest", t |-> t]
        /\ returned' = findClosestExcitation(excitationData, t)
        /\ UNCHANGED <<excitationData, binnerVars, bondVars, analysisVars, chartVars, viewerVars, chartPageVars, uploadVars>>

NextAligner == FindSample \/ FindNearest

SpecAligner == InitAligner /\ [][NextAligner]_vars

-----------------------------------------------------------------------------
(* Spectral synthesis and display ceiling: MolecularCharts *)

ChartSampleSet == {Sample(t, v) : t \in ChartSampleTimes, v \in ChartSampleValues}

ChartSeriesSet ==
    UNION { {s \in [1..n -> ChartSampleSet] : StrictlyOrdered(s)} :
                n \in 0..Cardinality(ChartSampleTimes) }

\* Math.exp(-dE^2 / (2 * 0.15 * 0.15)) in 1/1000, for an energy distance of
\* n/d tenths of an eV taken at the nearest tenth.
gaussianWeight(n, d) ==
    LET k == (2 * n + d) \div (2 * d)
    IN  CASE k = 0 -> 1000
          [] k = 1 -> 801
          [] k = 2 -> 411
          [] k = 3 -> 135
          [] k = 4 -> 29
          [] k = 5 -> 4
          [] OTHER -> 0

\* generateEnergyRange(min, max, steps): steps points from min to max.
generateEnergyRange(min, max, steps) ==
    [i \in 1..steps |-> min + (i - 1) * ((max - min) \div (steps - 1))]

\* The energy axis of every synthesis, 2.0 eV to 7.0 eV, on the grid of
\* tenths of an eV.
energyRange == generateEnergyRange(20, 70, 51)

\* The object a lookup result stands for, with its denominator.
excitationOf(data, r) ==
    IF r.kind = "stored"
    THEN [den |-> 1,
          s1_energy |-> data[r.index].s1_energy, s1_oscillator |-> data[r.index].s1_oscillator,
          s2_energy |-> data[r.index].s2_energy, s2_oscillator |-> data[r.index].s2_oscillator]
    ELSE [den |-> r.obj.den,
          s1_energy |-> r.obj.s1_energy, s1_oscillator |-> r.obj.s1_oscillator,
          s2_energy |-> r.obj.s2_energy, s2_oscillator |-> r.obj.s2_oscillator]

\* generateSpectrum(energyRange, excitationData): each state contributes a
\* Gaussian when its oscillator strength is positive.  Intensities are
\* numerators over 100000 * den.
generateSpectrum(range, exc) ==
    [den |-> exc.den,
     values |->
        [i \in 1..Len(range) |->
            (IF exc.s1_oscillator > 0
             THEN exc.s1_oscillator * gaussianWeight(Abs(range[i] * exc.den - exc.s1_energy), exc.den)
             ELSE 0)
          + (IF exc.s2_oscillator > 0
             THEN exc.s2_oscillator * gaussianWeight(Abs(range[i] * exc.den - exc.s2_energy), exc.den)
             ELSE 0)]]

\* The stored sample i as generateSpectrum receives it.
storedExcitation(data, i) == excitationOf(data, [kind |-> "stored", index |-> i, obj |-> NoObject])

\* Math.max(...spectrum) of the stored sample i, in 1/100000.
spectrumMaxOf(data, i) ==
    LET intensities == Range(generateSpectrum(energyRange, storedExcitation(data, i)).values)
    IN  Max(intensities)

\* calculateGlobalYAxisMax without the headroom factor.
calculateGlobalYAxisMaxNoPadding(data) ==
    IF Len(data) = 0 THEN 200000
    ELSE LET maxOscillator ==
                 Max({0} \cup {data[i].s1_oscillator * 1000 : i \in 1..Len(data)}
                         \cup {data[i].s2_oscillator * 1000 : i \in 1..Len(data)})
             maxSpectrum == Max({0} \cup {spectrumMaxOf(data, i) : i \in 1..Len(data)})
             dataMax == Max({maxOscillator, maxSpectrum})
             paddedMax10 == dataMax * 10
         IN  IF paddedMax10 <= 100000 THEN 10000
             ELSE IF paddedMax10 <= 500000 THEN 50000
             ELSE IF paddedMax10 <= 1000000 THEN 100000
             ELSE IF paddedMax10 <= 2000000 THEN 200000
             ELSE IF paddedMax10 <= 5000000 THEN 500000
             ELSE ((paddedMax10 + 999999) \div 1000000) * 100000

\* MolecularCharts.calculateGlobalYAxisMax(), in 1/100000: 2.0 without data,
\* else the maximum of the oscillator strengths and the spectrum maxima, times
\* 1.2 (paddedMax10 is ten times paddedMax), raised to 0.1, 0.5, 1, 2, 5 or
\* to the next integer.
calculateGlobalYAxisMax(data) ==
    IF Len(data) = 0 THEN 200000
    ELSE LET maxOscillator ==
                 Max({0} \cup {data[i].s1_oscillator * 1000 : i \in 1..Len(data)}
                         \cup {data[i].s2_oscillator * 1000 : i \in 1..Len(data)})
             maxSpectrum == Max({0} \cup {spectrumMaxOf(data, i) : i \in 1..Len(data)})
             dataMax == Max({maxOscillator, maxSpectrum})
             paddedMax10 == dataMax * 12
         IN  IF paddedMax10 <= 100000 THEN 10000
             ELSE IF paddedMax10 <= 500000 THEN 50000
             ELSE IF paddedMax10 <= 1000000 THEN 100000
             ELSE IF paddedMax10 <= 2000000 THEN 200000
             ELSE IF paddedMax10 <= 5000000 THEN 500000
             ELSE ((paddedMax10 + 999999) \div 1000000) * 100000

\* A MolecularCharts object has been constructed; no data is set.
InitCharts ==
    /\ AlignerIdle
    /\ ChartIdle
    /\ BinnerIdle
    /\ BondIdle
    /\ AnalysisIdle
    /\ ViewerIdle
    /\ UploadIdle

\* setData that computes the ceiling only while none is stored.
SetDataKeepCeiling ==
    \E s \in ChartSeriesSet, traj \in ChartTrajectories :
        /\ excitationData' = s
        /\ chartTrajectoryData' = Some(traj)
        /\ globalYAxisMax' = IF globalYAxisMax = Null
                              THEN Some(calculateGlobalYAxisMax(s)) ELSE globalYAxisMax
        /\ call' = [op |-> "setData", t |-> 0]
        /\ returned' = ReturnNull
        /\ spectrum' = NoSpectrum
        /\ UNCHANGED <<binnerVars, bondVars, analysisVars, viewerVars, chartPageVars, uploadVars>>

\* MolecularCharts.setData(excitationData, trajectoryData): stores the two
\* series and computes the ceiling.
SetData ==
    \E s \in ChartSeriesSet, traj \in ChartTrajectories :
        /\ excitationData' = s
        /\ chartTrajectoryData' = Some(traj)
        /\ globalYAxisMax' = Some(calculateGlobalYAxisMax(s))
        /\ call' = [op |-> "setData", t |-> 0]
        /\ returned' = ReturnNull
        /\ spectrum' = NoSpectrum
        /\ UNCHANGED <<binnerVars, bondVars, analysisVars, viewerVars, chartPageVars, uploadVars>>

\* Spectrum synthesis that stores the sample it used as the first entry of
\* the series.
SynthesizeSpectrumStoring ==
    \E t \in SpectrumTimes :
        LET found == findClosestExcitationData(excitationData, t)
            closestExcitation ==
                IF found.kind = "null" /\ Len(excitationData) > 0 THEN ReturnStored(1) ELSE found
        IN  /\ call' = [op |-> "spectrum", t |-> t]
            /\ returned' = closestExcitation
            /\ spectrum' = IF closestExcitation.kind = "null" THEN spectrum
                           ELSE generateSpectrum(energyRange,
                                                 excitationOf(excitationData, closestExcitation))
            /\ excitationData' =
                   IF closestExcitation.kind = "new"
                   THEN [excitationData EXCEPT ![1] =
                            [@ EXCEPT !.s1_oscillator = closestExcitation.obj.s1_oscillator,
                                      !.s2_oscillator = closestExcitation.obj.s2_oscillator]]
                   ELSE excitationData
            /\ UNCHANGED <<globalYAxisMax, chartTrajectoryData,
                           binnerVars, bondVars, analysisVars, viewerVars, chartPageVars, uploadVars>>

\* Spectrum synthesis for a time, as updateSpectrumData performs it: the
\* sample findClosestExcitationData returns, the first stored sample when that
\* is null, and generateSpectrum on the energy axis.
SynthesizeSpectrum ==
    \E t \in SpectrumTimes :
        LET found == findClosestExcitationData(excitationData, t)
            closestExcitation ==
                IF found.kind = "null" /\ Len(excitationData) > 0 THEN ReturnStored(1) ELSE found
        IN  /\ call' = [op |-> "spectrum", t |-> t]
            /\ returned' = closestExcitation
            /\ spectrum' = IF closestExcitation.kind = "null" THEN spectrum
                           ELSE generateSpectrum(energyRange,
                                                 excitationOf(excitationData, closestExcitation))
            /\ UNCHANGED <<excitationData, globalYAxisMax, chartTrajectoryData,
                           binnerVars, bondVars, analysisVars, viewerVars, chartPageVars, uploadVars>>

NextCharts == SetData \/ FindSample \/ FindNearest \/ SynthesizeSpectrum

SpecCharts == InitCharts /\ [][NextCharts]_vars

-----------------------------------------------------------------------------
(* Correlation binner: createDMABNChart *)

\* The test typeof x is 'number', which NaN passes as well.
typeofNumber(x) == x.type \in {"number", "NaN"}

\* a > b on JavaScript values: false as soon as either side is not a number.
jsGreater(a, b) == a.type = "number" /\ b.type = "number" /\ a.val > b.val

\* Oscillator pairs an excitation sample may carry (units of 1/100).
BinSampleValues ==
    { [s1_oscillator |-> Num(30),   s2_oscillator |-> Num(10)],
      [s1_oscillator |-> Num(10),   s2_oscillator |-> Num(30)],
      [s1_oscillator |-> Num(20),   s2_oscillator |-> Num(20)],
      [s1_oscillator |-> Undefined, s2_oscillator |-> Num(10)],
      [s1_oscillator |-> Num(10),   s2_oscillator |-> NaN] }

BinSampleSet ==
    { [time_fs |-> t, s1_oscillator |-> v.s1_oscillator, s2_oscillator |-> v.s2_oscillator] :
          t \in BinSampleTimes, v \in BinSampleValues }

BinSeriesSet ==
    UNION { {s \in [1..n -> BinSampleSet] : StrictlyOrdered(s)} : n \in 0..MaxBinSamples }

GeomFrame(k, v) ==
    [time_fs |-> GeomTimes[k], time_ps |-> <<GeomTimes[k], 1000>>, frame_number |-> k - 1,
     twist_angle |-> v.twist_angle, ring_planarity |-> v.ring_planarity]

GeometrySet ==
    UNION { {[k \in 1..n |-> GeomFrame(k, f[k])] : f \in [1..n -> GeomValues]} : n \in 0..MaxFrames }

\* The time window of the correlation matching, and the bin width in degrees.
CorrelationGapFs == 50
binSize == 5

\* s1_dominant of a correlated frame.
s1DominantLoose(o1, o2) == ~jsGreater(o2, o1)

s1Dominant(o1, o2) == jsGreater(o1, o2)

\* The record pushed for a geometry frame matched with an excitation sample.
correlated(geomFrame, closestExcitation) ==
    [twist_angle |-> geomFrame.twist_angle,
     ring_planarity |-> geomFrame.ring_planarity,
     s1_oscillator |-> closestExcitation.s1_oscillator,
     s2_oscillator |-> closestExcitation.s2_oscillator,
     time_ps |-> geomFrame.time_ps,
     time_fs |-> geomFrame.time_fs,
     frame_number |-> geomFrame.frame_number,
     s1_dominant |-> s1Dominant(closestExcitation.s1_oscillator, closestExcitation.s2_oscillator)]

\* geometryData.forEach: the correlation matching loop.
RECURSIVE correlate(_, _, _, _)
correlate(geom, exc, k, acc) ==
    IF k > Len(geom) THEN acc
    ELSE LET r == closestOf(exc, geom[k].time_fs)
             keep == /\ r.closest # 0
                     /\ r.minDiff < CorrelationGapFs
                     /\ typeofNumber(exc[r.closest].s1_oscillator)
                     /\ typeofNumber(exc[r.closest].s2_oscillator)
         IN  correlate(geom, exc, k + 1,
                 IF keep THEN Append(acc, correlated(geom[k], exc[r.closest])) ELSE acc)

RECURSIVE sumPlanarity(_)
sumPlanarity(s) == IF s = <<>> THEN 0 ELSE Head(s).ring_planarity + sumPlanarity(Tail(s))

\* The nested loops of findBestComparisonPair, pair k of Len(s1) * Len(s2),
\* s1 outer and s2 inner.  twistDifference starts at Infinity, which is the
\* case best.twistDifference = Null.
RECURSIVE bestPairScan(_, _, _, _)
bestPairScan(s1Examples, s2Examples, k, best) ==
    IF k > Len(s1Examples) * Len(s2Examples) THEN best
    ELSE LET s1Frame == s1Examples[((k - 1) \div Len(s2Examples)) + 1]
             s2Frame == s2Examples[((k - 1) % Len(s2Examples)) + 1]
             twistDiff == Abs(s1Frame.twist_angle.val - s2Frame.twist_angle.val)
         IN  bestPairScan(s1Examples, s2Examples, k + 1,
                 IF best.twistDifference = Null \/ twistDiff < best.twistDifference[1]
                 THEN [s1Frame |-> Some(s1Frame), s2Frame |-> Some(s2Frame),
                       twistDifference |-> Some(twistDiff)]
                 ELSE best)

\* findBestComparisonPair returning the first frame of each subset.
findFirstComparisonPair(s1Examples, s2Examples) ==
    [s1Frame |-> IF Len(s1Examples) > 0 THEN Some(s1Examples[1]) ELSE Null,
     s2Frame |-> IF Len(s2Examples) > 0 THEN Some(s2Examples[1]) ELSE Null,
     twistDifference |->
         IF Len(s1Examples) > 0 /\ Len(s2Examples) > 0
         THEN Some(Abs(s1Examples[1].twist_angle.val - s2Examples[1].twist_angle.val))
         ELSE Null]

\* findBestComparisonPair reporting a gap of 0 when one subset is empty.
findBestComparisonPairZeroGap(s1Examples, s2Examples) ==
    IF Len(s1Examples) = 0 \/ Len(s2Examples) = 0
    THEN [s1Frame |-> IF Len(s1Examples) > 0 THEN Some(s1Examples[1]) ELSE Null,
          s2Frame |-> IF Len(s2Examples) > 0 THEN Some(s2Examples[1]) ELSE Null,
          twistDifference |-> Some(0)]
    ELSE bestPairScan(s1Examples, s2Examples, 1,
             [s1Frame |-> Null, s2Frame |-> Null, twistDifference |-> Null])

findBestComparisonPair(s1Examples, s2Examples) ==
    IF Len(s1Examples) = 0 \/ Len(s2Examples) = 0
    THEN [s1Frame |-> IF Len(s1Examples) > 0 THEN Some(s1Examples[1]) ELSE Null,
          s2Frame |-> IF Len(s2Examples) > 0 THEN Some(s2Examples[1]) ELSE Null,
          twistDifference |-> Null]
    ELSE bestPairScan(s1Examples, s2Examples, 1,
             [s1Frame |-> Null, s2Frame |-> Null, twistDifference |-> Null])

\* The record pushed for a non-empty bin (the binRange label is not modelled).
\* Array.prototype.filter keeps the order of the array, as SelectSeq does.
binRecord(binStart, pointsInBin) ==
    LET isS1(d) == d.s1_dominant
        isS2(d) == ~d.s1_dominant
        s1DominantCount == Len(SelectSeq(pointsInBin, isS1))
        s2DominantCount == Len(pointsInBin) - s1DominantCount
        s1Examples == SelectSeq(pointsInBin, isS1)
        s2Examples == SelectSeq(pointsInBin, isS2)
        comparisonPair == findBestComparisonPair(s1Examples, s2Examples)
    IN  [binCenter |-> <<2 * binStart + binSize, 2>>,
         binStart |-> binStart,
         binEnd |-> binStart + binSize,
         totalCount |-> Len(pointsInBin),
         s1DominantCount |-> s1DominantCount,
         s2DominantCount |-> s2DominantCount,
         s1Percentage |-> <<s1DominantCount * 100, Len(pointsInBin)>>,
         s2Percentage |-> <<s2DominantCount * 100, Len(pointsInBin)>>,
         avgPlanarity |-> <<sumPlanarity(pointsInBin), Len(pointsInBin)>>,
         exampleS1Frame |-> IF comparisonPair.s1Frame # Null
                            THEN Some(comparisonPair.s1Frame[1].frame_number) ELSE Null,
         exampleS2Frame |-> IF comparisonPair.s2Frame # Null
                            THEN Some(comparisonPair.s2Frame[1].frame_number) ELSE Null,
         s1TwistAngle |-> IF comparisonPair.s1Frame # Null
                          THEN Some(comparisonPair.s1Frame[1].twist_angle) ELSE Null,
         s2TwistAngle |-> IF comparisonPair.s2Frame # Null
                          THEN Some(comparisonPair.s2Frame[1].twist_angle) ELSE Null,
         twistAngleDifference |-> comparisonPair.twistDifference,
         allFrames |-> pointsInBin]

\* Math.min and Math.max of the twist angles are NaN as soon as one of them
\* is not a number.
twistsAreNumbers(corr) == \A k \in 1..Len(corr) : corr[k].twist_angle.type = "number"

\* Math.ceil((maxTwist - minTwist) / binSize); with no correlated frame the
\* quotient is -Infinity, with a NaN bound it is NaN, and in both cases the
\* test i < numBins fails at once: the bin loop does not run.
numBinsOf(corr) ==
    IF corr = <<>> \/ ~twistsAreNumbers(corr) THEN 0
    ELSE LET twists == {corr[k].twist_angle.val : k \in 1..Len(corr)}
             minTwist == Min(twists)
             maxTwist == CHOOSE x \in twists : \A y \in twists : y <= x
         IN  (maxTwist - minTwist + binSize - 1) \div binSize

minTwistOf(corr) == Min({corr[k].twist_angle.val : k \in 1..Len(corr)})

\* for (let i = 0; i < numBins; i++): the binning loop.
RECURSIVE binLoop(_, _, _, _, _)
binLoop(corr, minTwist, numBins, i, acc) ==
    IF i >= numBins THEN acc
    ELSE LET binStart == minTwist + i * binSize
             binEnd == binStart + binSize
             inBin(d) == d.twist_angle.val >= binStart /\ d.twist_angle.val < binEnd
             pointsInBin == SelectSeq(corr, inBin)
         IN  binLoop(corr, minTwist, numBins, i + 1,
                 IF Len(pointsInBin) > 0
                 THEN Append(acc, binRecord(binStart, pointsInBin))
                 ELSE acc)

buildBins(corr) ==
    IF numBinsOf(corr) = 0 THEN <<>>
    ELSE binLoop(corr, minTwistOf(corr), numBinsOf(corr), 0, <<>>)

\* window.dmabnCharts holds the data set by setData; no chart has been built.
InitBinner ==
    /\ geometryData \in GeometrySet
    /\ dmabnExcitationData \in BinSeriesSet
    /\ correlationData = <<>>
    /\ binData = Null
    /\ AlignerIdle
    /\ BondIdle
    /\ AnalysisIdle
    /\ ChartIdle
    /\ ViewerIdle
    /\ UploadIdle

\* createDMABNChart(): returns early without excitation data; otherwise
\* correlates, bins and stores binData on window.dmabnCharts.
CreateDMABNChart ==
    IF Len(dmabnExcitationData) = 0
    THEN UNCHANGED vars
    ELSE /\ correlationData' = correlate(geometryData, dmabnExcitationData, 1, <<>>)
         /\ binData' = Some(buildBins(correlationData'))
         /\ UNCHANGED <<geometryData, dmabnExcitationData, alignerVars, bondVars,
                        analysisVars, chartVars, viewerVars, chartPageVars, uploadVars>>

NextBinner == CreateDMABNChart

SpecBinner == InitBinner /\ [][NextBinner]_vars

-----------------------------------------------------------------------------
(* DMABN analysis request: showGeometryTimeline, showGeometryChart and the *)
(* steps of createDMABNChart                                               *)

\* Geometry series the /api/dmabn/data response may carry.
AnalysisGeometries ==
    LET frames(tw) == [k \in 1..Len(tw) |->
                          GeomFrame(k, [twist_angle |-> Num(tw[k]), ring_planarity |-> 1])]
    IN  { frames(<<0, 5, 10>>), frames(<<0, 2, 3>>), frames(<<2, 3>>), frames(<<5>>),
          frames(<<>>) }

\* Values molecularViewer.excitationData may hold when a request is served.
AnalysisSeries ==
    LET s1Sample(t) == [time_fs |-> t, s1_oscillator |-> Num(30), s2_oscillator |-> Num(10)]
        s2Sample(t) == [time_fs |-> t, s1_oscillator |-> Num(10), s2_oscillator |-> Num(30)]
    IN  { <<>>, <<s1Sample(0)>>, <<s2Sample(50)>>, <<s1Sample(0), s2Sample(50)>> }

\* No request has been served: window.dmabnCharts is undefined.
InitAnalysis ==
    /\ BinnerIdle
    /\ AnalysisIdle
    /\ AlignerIdle
    /\ BondIdle
    /\ ChartIdle
    /\ ViewerIdle
    /\ UploadIdle

\* showGeometryTimeline(), from the arrival of the response on.  A response
\* without success only raises an alert.  Otherwise setData stores the two
\* series and showGeometryChart runs: with the popup already in the document
\* it only makes it visible, else it creates it and schedules createDMABNChart.
ShowGeometryTimeline ==
    /\ chartBuild.pc = "idle"
    /\ \E success \in BOOLEAN, g \in AnalysisGeometries, e \in AnalysisSeries :
           IF ~success
           THEN UNCHANGED vars
           ELSE /\ geometryData' = g
                /\ dmabnExcitationData' = e
                /\ IF chartPopup
                   THEN UNCHANGED <<chartPopup, chartTimers>>
                   ELSE /\ chartPopup' = TRUE
                        /\ chartTimers' = chartTimers + 1
                /\ UNCHANGED <<correlationData, binData, chartBuild,
                               alignerVars, bondVars, chartVars, viewerVars, chartPageVars, uploadVars>>

\* The scheduled createDMABNChart() starts: it returns early without
\* excitation data, else builds correlationData and enters the bin loop with
\* an empty local binData.
StartChartBuild ==
    /\ chartTimers > 0
    /\ chartBuild.pc = "idle"
    /\ chartTimers' = chartTimers - 1
    /\ IF Len(dmabnExcitationData) = 0
       THEN UNCHANGED <<correlationData, chartBuild>>
       ELSE /\ correlationData' = correlate(geometryData, dmabnExcitationData, 1, <<>>)
            /\ chartBuild' = [pc |-> "loop", i |-> 0, binData |-> <<>>]
    /\ UNCHANGED <<geometryData, dmabnExcitationData, binData, chartPopup,
                   alignerVars, bondVars, chartVars, viewerVars, chartPageVars, uploadVars>>

\* One iteration of the bin loop that pushes onto the published binData.
BinLoopStepInPlace ==
    /\ chartBuild.pc = "loop"
    /\ chartBuild.i < numBinsOf(correlationData)
    /\ chartBuild' = [chartBuild EXCEPT
           !.i = @ + 1,
           !.binData = binLoop(correlationData, minTwistOf(correlationData),
                               chartBuild.i + 1, chartBuild.i, @)]
    /\ binData' = Some(chartBuild'.binData)
    /\ UNCHANGED <<geometryData, dmabnExcitationData, correlationData, chartPopup, chartTimers,
                   alignerVars, bondVars, chartVars, viewerVars, chartPageVars, uploadVars>>

\* One iteration of the bin loop: a non-empty bin is pushed onto the local
\* binData of the running createDMABNChart.
BinLoopStep ==
    /\ chartBuild.pc = "loop"
    /\ chartBuild.i < numBinsOf(correlationData)
    /\ chartBuild' = [chartBuild EXCEPT
           !.i = @ + 1,
           !.binData = binLoop(correlationData, minTwistOf(correlationData),
                               chartBuild.i + 1, chartBuild.i, @)]
    /\ UNCHANGED <<geometryData, dmabnExcitationData, correlationData, binData,
                   chartPopup, chartTimers,
                   alignerVars, bondVars, chartVars, viewerVars, chartPageVars, uploadVars>>

\* The end of a build that publishes its bins only when there are some.
PublishBinDataUnlessEmpty ==
    /\ chartBuild.pc = "loop"
    /\ chartBuild.i >= numBinsOf(correlationData)
    /\ binData' = IF chartBuild.binData = <<>> THEN binData ELSE Some(chartBuild.binData)
    /\ chartBuild' = NoChartBuild
    /\ UNCHANGED <<geometryData, dmabnExcitationData, correlationData, chartPopup, chartTimers,
                   alignerVars, bondVars, chartVars, viewerVars, chartPageVars, uploadVars>>

\* After the loop: window.dmabnCharts.binData = binData, and the chart is drawn.
PublishBinData ==
    /\ chartBuild.pc = "loop"
    /\ chartBuild.i >= numBinsOf(correlationData)
    /\ binData' = Some(chartBuild.binData)
    /\ chartBuild' = NoChartBuild
    /\ UNCHANGED <<geometryData, dmabnExcitationData, correlationData, chartPopup, chartTimers,
                   alignerVars, bondVars, chartVars, viewerVars, chartPageVars, uploadVars>>

NextAnalysis == ShowGeometryTimeline \/ StartChartBuild \/ BinLoopStep \/ PublishBinData

SpecAnalysis == InitAnalysis /\ [][NextAnalysis]_vars

-----------------------------------------------------------------------------
(* Bond inference: MolecularViewer.createBonds *)

\* maxBondDistances, in 1/10 Angstrom.
maxBondDistanceH == 12
maxBondDistanceDefault == 18

\* calculateDistance returns the square root of this sum; distance < maxDistance
\* is decided below on the squares, both sides being non-negative.
calculateDistanceSq(coord1, coord2) ==
    LET dx == coord1[1] - coord2[1]
        dy == coord1[2] - coord2[2]
        dz == coord1[3] - coord2[3]
    IN  dx * dx + dy * dy + dz * dz

\* atoms[i]: undefined past the end of the array.
atomAt(as, i) == IF i \in DOMAIN as THEN as[i] ELSE "undefined"

\* maxDistance with the hydrogen threshold applied only when both atoms are hydrogen.
maxDistanceBothH(as, i, j) ==
    IF atomAt(as, i) = "H" /\ atomAt(as, j) = "H"
    THEN maxBondDistanceH ELSE maxBondDistanceDefault

\* maxDistance: the hydrogen threshold when atoms[i] or atoms[j] is 'H', else the default.
maxDistanceOf(as, i, j) ==
    IF atomAt(as, i) = "H" \/ atomAt(as, j) = "H"
    THEN maxBondDistanceH ELSE maxBondDistanceDefault

\* The nested loops of createBonds over i < j < coords.length (indices 1-based
\* here); acc collects the atomIndices of the bonds pushed.
RECURSIVE bondLoop(_, _, _, _, _)
bondLoop(as, cs, i, j, acc) ==
    IF i > Len(cs) THEN acc
    ELSE IF j > Len(cs) THEN bondLoop(as, cs, i + 1, i + 2, acc)
    ELSE LET maxDistance == maxDistanceOf(as, i, j)
         IN  bondLoop(as, cs, i, j + 1,
                 IF calculateDistanceSq(cs[i], cs[j]) < maxDistance * maxDistance
                 THEN Append(acc, <<i, j>>)
                 ELSE acc)

createBonds(as, cs) == bondLoop(as, cs, 1, 2, <<>>)

\* The first frame of a loaded trajectory; no structure has been set up.
InitBonds ==
    /\ \E n \in 0..MaxAtoms :
           /\ atoms \in [1..n -> AtomSymbols]
           /\ coords \in [1..n -> PositionSet]
    /\ bondMeshes = <<>>
    /\ bondsCreated = FALSE
    /\ AlignerIdle
    /\ BinnerIdle
    /\ AnalysisIdle
    /\ ChartIdle
    /\ ViewerIdle
    /\ UploadIdle

\* setupMolecularStructure: createBonds(atoms, coords) on the first frame.
CreateBonds ==
    /\ bondMeshes' = createBonds(atoms, coords)
    /\ bondsCreated' = TRUE
    /\ UNCHANGED <<atoms, coords, alignerVars, binnerVars, analysisVars, chartVars, viewerVars, chartPageVars, uploadVars>>

NextBonds == CreateBonds

SpecBonds == InitBonds /\ [][NextBonds]_vars

-----------------------------------------------------------------------------
(* Loading and frame changes: MolecularViewer *)

\* The non-empty trajectories a response may carry: every frame has the atom
\* list of the first one.
TrajectorySet ==
    UNION { {[k \in 1..n |-> Frame(a, c[k], k - 1)] : a \in ViewerAtomLists,
                                                       c \in [1..n -> ViewerCoordLists]} :
                n \in 1..MaxTrajFrames }

\* data.trajectory: missing, an empty array, or a trajectory.
ResponseTrajectories == {Null, Some(<<>>)} \cup {Some(tr) : tr \in TrajectorySet}

\* data.excitation: missing, or a series.
ResponseExcitations == {Null, Some(ExampleSeries)}

\* The page has constructed the viewer and called loadData, which awaits the
\* response.
InitViewer ==
    /\ ViewerIdle
    /\ UploadIdle
    /\ BondIdle
    /\ AlignerIdle
    /\ BinnerIdle
    /\ AnalysisIdle
    /\ ChartIdle

\* The atoms.forEach of setupMolecularStructure reads coords[index][0] for
\* every atom: a TypeError when there are more atoms than coordinates.
setupThrows(frame) == Len(frame.atoms) > Len(frame.coords)

\* loadData(sessionId), from the arrival of the response on.  An HTTP error,
\* a response without success, and a missing or empty trajectory throw
\* before anything is stored.  Otherwise the two series are stored and
\* setupMolecularStructure runs on the first frame: clearMolecule, the atom
\* meshes, createBonds; then updateFrame(0).  Whatever is thrown is caught:
\* showError, return false.
loadData(trajectories, excitations) ==
    /\ loadResult = Null
    /\ \E ok \in BOOLEAN, success \in BOOLEAN, tr \in trajectories, exc \in excitations :
           IF ~ok \/ ~success \/ tr = Null \/ tr = Some(<<>>)
           THEN /\ errorShown' = TRUE
                /\ loadResult' = Some(FALSE)
                /\ UNCHANGED <<trajectoryData, viewerExcitationData, currentFrame, bondVars>>
           ELSE /\ trajectoryData' = tr
                /\ viewerExcitationData' = IF exc = Null THEN Some(<<>>) ELSE exc
                /\ atoms' = tr[1][1].atoms
                /\ coords' = tr[1][1].coords
                /\ IF setupThrows(tr[1][1])
                   THEN /\ bondMeshes' = <<>>
                        /\ bondsCreated' = FALSE
                        /\ errorShown' = TRUE
                        /\ loadResult' = Some(FALSE)
                   ELSE /\ bondMeshes' = createBonds(tr[1][1].atoms, tr[1][1].coords)
                        /\ bondsCreated' = TRUE
                        /\ errorShown' = errorShown
                        /\ loadResult' = Some(TRUE)
                /\ currentFrame' = IF setupThrows(tr[1][1]) THEN currentFrame ELSE 0
    /\ UNCHANGED <<alignerVars, binnerVars, analysisVars, chartVars, playbackVars,
                   chartPageVars, uploadVars>>

\* The response to the loadData call the page makes once it is ready.
LoadData == loadData(ResponseTrajectories, ResponseExcitations)

\* What a frame change leaves alone, whether a chart exists or not.
frameChangeKeeps ==
    <<trajectoryData, viewerExcitationData, loadResult, errorShown,
      atoms, coords, bondsCreated, alignerVars, binnerVars, analysisVars, chartVars,
      uploadVars>>

\* updateFrame that infers the bonds again from the frame it shows.
updateFrameReinferring(frameIndex) ==
    IF trajectoryData = Null \/ frameIndex >= Len(trajectoryData[1])
    THEN UNCHANGED <<currentFrame, bondMeshes, frameChangeKeeps>>
    ELSE /\ currentFrame' = frameIndex
         /\ bondMeshes' = createBonds(trajectoryData[1][frameIndex + 1].atoms,
                                      trajectoryData[1][frameIndex + 1].coords)
         /\ UNCHANGED frameChangeKeeps

\* updateFrame(frameIndex): returns when there is no trajectory or the index
\* is past its end; else makes the frame current and moves the atom and bond
\* meshes to its coordinates.  (molecularCharts.updateCharts is called only
\* once the charts object exists.)
updateFrame(frameIndex) ==
    IF trajectoryData = Null \/ frameIndex >= Len(trajectoryData[1])
    THEN UNCHANGED <<currentFrame, bondMeshes, frameChangeKeeps>>
    ELSE /\ currentFrame' = frameIndex
         /\ UNCHANGED <<bondMeshes, frameChangeKeeps>>

\* nextFrame()
nextFrame ==
    IF trajectoryData = Null
    THEN UNCHANGED <<currentFrame, bondMeshes, frameChangeKeeps>>
    ELSE updateFrame((currentFrame + 1) % Len(trajectoryData[1]))

\* previousFrame()
previousFrame ==
    IF trajectoryData = Null
    THEN UNCHANGED <<currentFrame, bondMeshes, frameChangeKeeps>>
    ELSE updateFrame(IF currentFrame > 0 THEN currentFrame - 1 ELSE Len(trajectoryData[1]) - 1)

\* setFrame(frameIndex) without the test frameIndex < 0.
setFrameUncheckedBelow(frameIndex) ==
    IF trajectoryData = Null \/ frameIndex >= Len(trajectoryData[1])
    THEN UNCHANGED <<currentFrame, bondMeshes, frameChangeKeeps>>
    ELSE updateFrame(frameIndex)

\* setFrame(frameIndex)
setFrame(frameIndex) ==
    IF trajectoryData = Null \/ frameIndex < 0 \/ frameIndex >= Len(trajectoryData[1])
    THEN UNCHANGED <<currentFrame, bondMeshes, frameChangeKeeps>>
    ELSE updateFrame(frameIndex)

\* A click on the next-frame button.
NextFrame == nextFrame /\ UNCHANGED <<playbackVars, chartPageVars>>

\* A click on the previous-frame button.
PreviousFrame == previousFrame /\ UNCHANGED <<playbackVars, chartPageVars>>

\* An input event of the frame slider.
SetFrame ==
    \E frameIndex \in -1..MaxTrajFrames :
        setFrame(frameIndex) /\ UNCHANGED <<playbackVars, chartPageVars>>

NextViewer == LoadData \/ NextFrame \/ PreviousFrame \/ SetFrame

SpecViewer == InitViewer /\ [][NextViewer]_vars

-----------------------------------------------------------------------------
(* The charts of the viewer page: initializeCharts, createSpectrumChart, *)
(* createEnergyChart, updateCharts                                       *)

LongTrajectory == [k \in 1..LongTrajectoryFrames |-> Frame(<<"C">>, <<(<<0, 0, 0>>)>>, k - 1)]

PageTrajectories == {Some(LongTrajectory)}

\* data.excitation of the response: missing, or one to three samples.
PageExcitations ==
    LET v1 == [s1_energy |-> 40, s1_oscillator |-> 10, s2_energy |-> 50, s2_oscillator |-> 40]
        v2 == [s1_energy |-> 42, s1_oscillator |-> 30, s2_energy |-> 48, s2_oscillator |-> 20]
        v3 == [s1_energy |-> 38, s1_oscillator |-> 50, s2_energy |-> 52, s2_oscillator |-> 10]
        s1 == Sample(PageSampleTimes[1], v1)
        s2 == Sample(PageSampleTimes[2], v2)
        s3 == Sample(PageSampleTimes[3], v3)
    IN  {Null, Some(<<s1>>), Some(<<s1, s2>>), Some(<<s2, s3>>), Some(<<s1, s2, s3>>)}

\* currentTime = currentFrame * 0.5 (fs), for the even frames the model visits.
frameTimeFs(frame) == frame \div 2

\* The start of the excitation data: charts show nothing before 5 ps.
excitationStartFs == 5000

\* MolecularCharts.excitationData is set: setData has run (it always leaves a
\* ceiling behind).
chartsHaveData == globalYAxisMax # Null

\* initializeCharts() finds data to hand to setData.
viewerHasData == viewerExcitationData # Null /\ trajectoryData # Null

\* initializeCharts(): creates the MolecularCharts object unless one exists,
\* and only then calls setData, provided the viewer holds both series.
initializeCharts ==
    /\ chartsInitialized' = TRUE
    /\ IF ~chartsInitialized /\ viewerHasData
       THEN /\ excitationData' = viewerExcitationData[1]
            /\ chartTrajectoryData' = trajectoryData
            /\ globalYAxisMax' = Some(calculateGlobalYAxisMax(viewerExcitationData[1]))
       ELSE UNCHANGED <<excitationData, chartTrajectoryData, globalYAxisMax>>

\* The sample createSpectrumChart draws: findClosestExcitation, else the
\* first stored sample.
creationSample(data, timeFs) ==
    LET found == findClosestExcitation(data, timeFs)
    IN  IF found.kind = "null" /\ Len(data) > 0 THEN ReturnStored(1) ELSE found

\* The sample updateSpectrumData draws: findClosestExcitationData, else the
\* first stored sample.
updateSample(data, timeFs) ==
    LET found == findClosestExcitationData(data, timeFs)
    IN  IF found.kind = "null" /\ Len(data) > 0 THEN ReturnStored(1) ELSE found

\* MolecularCharts.createSpectrumChart(), run after initializeCharts: nothing
\* without data; the no-excitation message before 5 ps or without a sample;
\* else a new chart drawn from the sample for the current frame.
createSpectrumChartMethod ==
    IF ~chartsHaveData'
    THEN UNCHANGED <<spectrumChart, noExcitationMessage>>
    ELSE LET closestExcitation == creationSample(excitationData', frameTimeFs(currentFrame))
         IN  IF frameTimeFs(currentFrame) < excitationStartFs \/ closestExcitation.kind = "null"
             THEN /\ noExcitationMessage' = TRUE
                  /\ UNCHANGED spectrumChart
             ELSE /\ noExcitationMessage' = FALSE
                  /\ spectrumChart' = Some([frame |-> currentFrame, sample |-> closestExcitation])

\* What a chart request leaves alone.
chartRequestKeeps ==
    <<call, returned, spectrum, binnerVars, bondVars, analysisVars, viewerVars, uploadVars>>

\* createSpectrumChart(), called by the timer showSpectrumChart sets.
RequestSpectrumChart ==
    /\ initializeCharts
    /\ createSpectrumChartMethod
    /\ spectrumRequested' = TRUE
    /\ requestedAfterLoad' = (requestedAfterLoad \/ loadResult = Some(TRUE))
    /\ UNCHANGED <<energyChart, chartRequestKeeps>>

\* createEnergyChart(), called by the timer showEnergyEvolution sets: the
\* method returns without data, else replaces the energy chart.
RequestEnergyChart ==
    /\ initializeCharts
    /\ energyChart' = (energyChart \/ chartsHaveData')
    /\ requestedAfterLoad' = (requestedAfterLoad \/ loadResult = Some(TRUE))
    /\ UNCHANGED <<spectrumChart, noExcitationMessage, spectrumRequested, chartRequestKeeps>>

\* MolecularCharts.updateSpectrumData() for the frame just made current:
\* before 5 ps the message replaces the chart, which is destroyed; else the
\* chart is redrawn in place from the sample for the frame.
updateSpectrumData(frameIndex) ==
    IF frameTimeFs(frameIndex) < excitationStartFs
    THEN /\ noExcitationMessage' = TRUE
         /\ spectrumChart' = Null
    ELSE LET closestExcitation == updateSample(excitationData, frameTimeFs(frameIndex))
         IN  /\ noExcitationMessage' = FALSE
             /\ spectrumChart' = IF closestExcitation.kind = "null" THEN spectrumChart
                                 ELSE Some([frame |-> frameIndex, sample |-> closestExcitation])

\* MolecularCharts.updateCharts(), which updateFrame calls and the
\* frameChanged listener calls once more to the same effect: the spectrum is
\* updated only while a spectrum chart exists; the energy chart is redrawn.
updateCharts(frameIndex) ==
    IF spectrumChart # Null
    THEN updateSpectrumData(frameIndex)
    ELSE UNCHANGED <<spectrumChart, noExcitationMessage>>

\* An input event of the frame slider on the viewer page with its charts:
\* setFrame, whose updateFrame ends in updateCharts once the charts object
\* exists.
ShowFrame ==
    \E frameIndex \in SpectrumFrames :
        /\ setFrame(frameIndex)
        /\ IF trajectoryData # Null /\ frameIndex < Len(trajectoryData[1]) /\ chartsInitialized
           THEN updateCharts(frameIndex)
           ELSE UNCHANGED <<spectrumChart, noExcitationMessage>>
        /\ UNCHANGED <<playbackVars, chartsInitialized, energyChart,
                       spectrumRequested, requestedAfterLoad>>

\* The response to loadData on the viewer page.  The updateFrame(0) that ends
\* a successful load finds no spectrum chart to update: none can have been
\* created while the viewer held no data.
LoadPageData == loadData(PageTrajectories, PageExcitations)

NextChartPage == LoadPageData \/ RequestSpectrumChart \/ RequestEnergyChart \/ ShowFrame

SpecChartPage == InitViewer /\ [][NextChartPage]_vars

-----------------------------------------------------------------------------
(* Playback: MolecularViewer.play, pause, playLoop and the play control *)

\* play(): nothing while playing; else sets isPlaying and calls playLoop,
\* which schedules a timer.
play ==
    IF isPlaying
    THEN UNCHANGED <<isPlaying, playTimers>>
    ELSE /\ isPlaying' = TRUE
         /\ playTimers' = playTimers + 1

\* pause(): clears isPlaying; a scheduled timer stays scheduled.
pause ==
    /\ isPlaying' = FALSE
    /\ playTimers' = playTimers

\* The click listener of the play button that calls play() whatever the state.
PlayPauseClickAlwaysPlay ==
    /\ activations < MaxActivations
    /\ isPlaying \/ playTimers < MaxPlayTimers
    /\ activations' = activations + 1
    /\ play
    /\ UNCHANGED <<currentFrame, bondMeshes, frameChangeKeeps, chartPageVars>>

\* The click listener of the play button: pause() while playing, else play().
PlayPauseClick ==
    /\ activations < MaxActivations
    /\ isPlaying \/ playTimers < MaxPlayTimers
    /\ activations' = activations + 1
    /\ IF isPlaying THEN pause ELSE play
    /\ UNCHANGED <<currentFrame, bondMeshes, frameChangeKeeps, chartPageVars>>

\* A timer scheduled by playLoop fires: nextFrame(), then playLoop(), which
\* schedules the next timer only while isPlaying.
PlaybackTick ==
    /\ playTimers > 0
    /\ nextFrame
    /\ playTimers' = IF isPlaying THEN playTimers ELSE playTimers - 1
    /\ UNCHANGED <<isPlaying, activations, chartPageVars>>

\* handleBarClick(bin, datasetIndex) on a bin with an example frame: setFrame
\* on the frame number of that example, then pause() while playing.
HandleBarClick ==
    \E targetFrame \in 0..MaxTrajFrames :
        /\ setFrame(targetFrame)
        /\ IF isPlaying THEN pause ELSE UNCHANGED <<isPlaying, playTimers>>
        /\ activations' = 0
        /\ UNCHANGED chartPageVars

NextPlayback ==
    \/ LoadData
    \/ NextFrame
    \/ PreviousFrame
    \/ SetFrame
    \/ PlayPauseClick
    \/ PlaybackTick
    \/ HandleBarClick

SpecPlayback == InitViewer /\ [][NextPlayback]_vars

-----------------------------------------------------------------------------
(* The upload page: handleFiles, clearSelectedFiles, uploadFiles, *)
(* processFiles, openViewer, checkServerStatus                    *)

\* The FileList of a selection or a drop.
FileLists == UNION { [1..n -> UploadFileSet] : n \in 0..MaxDropped }

\* String.prototype.toLowerCase, character by character.
lowerOf(c) ==
    CASE c = "C" -> "c" [] c = "O" -> "o" [] c = "R" -> "r" [] c = "S" -> "s"
      [] c = "X" -> "x" [] c = "Y" -> "y" [] c = "Z" -> "z" [] OTHER -> c

toLowerCase(str) == [i \in 1..Len(str) |-> lowerOf(str[i])]

\* String.prototype.trim: leading and trailing blanks removed.
RECURSIVE trimStart(_)
trimStart(str) ==
    IF Len(str) > 0 /\ str[1] = " " THEN trimStart(Tail(str)) ELSE str

RECURSIVE trimEnd(_)
trimEnd(str) ==
    IF Len(str) > 0 /\ str[Len(str)] = " " THEN trimEnd(SubSeq(str, 1, Len(str) - 1)) ELSE str

trim(str) == trimEnd(trimStart(str))

\* name.toLowerCase().trim(), the key handleFiles compares.
normalizedName(name) == trim(toLowerCase(name))

\* file.name.split('.').pop().toLowerCase()
extensionOf(name) ==
    LET dots == {i \in 1..Len(name) : name[i] = "."}
        last == IF dots = {} THEN 0 ELSE Max(dots)
    IN  toLowerCase(SubSeq(name, last + 1, Len(name)))

allowedExtensions == { <<"x", "y", "z">>, <<"d", "a", "t">>, <<"t", "x", "t">> }

\* maxSize of validateFile, in MB.
maxSizeMB == 100

\* validateFile(file)
validateFile(file) == extensionOf(file.name) \in allowedExtensions /\ file.size <= maxSizeMB

\* selectedFiles.findIndex on the normalized name; 0 stands for -1.
existingIndexOf(list, newFile) ==
    LET S == {i \in 1..Len(list) :
                 normalizedName(list[i].name) = normalizedName(newFile.name)}
    IN  IF S = {} THEN 0 ELSE Min(S)

\* The body of the forEach of handleFiles, comparing the names as they are.
addFileExactName(list, newFile) ==
    LET S == {i \in 1..Len(list) : list[i].name = newFile.name}
    IN  IF S # {} THEN [list EXCEPT ![Min(S)] = newFile] ELSE Append(list, newFile)

\* The body of the forEach of handleFiles: a file whose normalized name is
\* present replaces that entry, any other file is pushed.
addFile(list, newFile) ==
    IF existingIndexOf(list, newFile) # 0
    THEN [list EXCEPT ![existingIndexOf(list, newFile)] = newFile]
    ELSE Append(list, newFile)

RECURSIVE addFiles(_, _, _)
addFiles(list, files, k) ==
    IF k > Len(files) THEN list ELSE addFiles(addFile(list, files[k]), files, k + 1)

\* displayFileStatus offers the upload button when coors.xyz is selected.
hasRequired(list) == \E i \in 1..Len(list) : normalizedName(list[i].name) = NameCoors

\* What the upload page leaves alone.
uploadKeeps ==
    <<alignerVars, binnerVars, bondVars, analysisVars, chartVars, viewerVars, chartPageVars>>

\* handleFiles(files): nothing for an empty list; else every file is added
\* and displayFileStatus redraws the upload area.
handleFiles(files) ==
    /\ IF Len(files) = 0
       THEN UNCHANGED <<selectedFiles, screen>>
       ELSE /\ selectedFiles' = addFiles(selectedFiles, files, 1)
            /\ screen' = "fileStatus"
    /\ UNCHANGED <<uploadsInFlight, processTimers, processInFlight, viewerChecks, statusChecks,
                   processRequests, uploadSuccesses, uploadKeeps>>

\* A change of the file input or a drop on the upload area, which stays in
\* the document whatever it shows.
HandleFiles == \E files \in FileLists : handleFiles(files)

\* clearSelectedFiles(), offered with the file status and with an error.
ClearSelectedFiles ==
    /\ screen \in {"fileStatus", "error"}
    /\ selectedFiles' = <<>>
    /\ screen' = "initial"
    /\ UNCHANGED <<uploadsInFlight, processTimers, processInFlight, viewerChecks, statusChecks,
                   processRequests, uploadSuccesses, uploadKeeps>>

\* uploadFiles(), offered with the file status once coors.xyz is selected:
\* an error without a selected or a valid file, else the request is sent.
UploadFiles ==
    /\ screen = "fileStatus"
    /\ hasRequired(selectedFiles)
    /\ uploadsInFlight + processTimers + Len(processRequests) < MaxProcessRequests
    /\ IF Len(selectedFiles) = 0 \/ \A i \in 1..Len(selectedFiles) : ~validateFile(selectedFiles[i])
       THEN /\ screen' = "error"
            /\ UNCHANGED uploadsInFlight
       ELSE /\ screen' = "loading"
            /\ uploadsInFlight' = uploadsInFlight + 1
    /\ UNCHANGED <<selectedFiles, processTimers, processInFlight, viewerChecks, statusChecks,
                   processRequests, uploadSuccesses, uploadKeeps>>

\* How a request may end.
Outcomes == {"success", "rejected", "httpError", "networkError", "timeout"}

\* The /api/upload request settles: a success response shows the success
\* screen and schedules processFiles; anything else shows the error.
UploadSettles ==
    /\ uploadsInFlight > 0
    /\ uploadsInFlight' = uploadsInFlight - 1
    /\ \E outcome \in Outcomes :
           IF outcome = "success"
           THEN /\ screen' = "uploadSuccess"
                /\ processTimers' = processTimers + 1
                /\ uploadSuccesses' = uploadSuccesses + 1
           ELSE /\ screen' = "error"
                /\ UNCHANGED <<processTimers, uploadSuccesses>>
    /\ UNCHANGED <<selectedFiles, processInFlight, viewerChecks, statusChecks,
                   processRequests, uploadKeeps>>

\* The timer set on upload success fires: processFiles() sends /api/process.
ProcessFiles ==
    /\ processTimers > 0
    /\ processTimers' = processTimers - 1
    /\ screen' = "loading"
    /\ processRequests' = Append(processRequests, "processFiles")
    /\ processInFlight' = processInFlight + 1
    /\ UNCHANGED <<selectedFiles, uploadsInFlight, viewerChecks, statusChecks,
                   uploadSuccesses, uploadKeeps>>

\* The /api/process request of processFiles settles.
ProcessSettles ==
    /\ processInFlight > 0
    /\ processInFlight' = processInFlight - 1
    /\ \E outcome \in Outcomes :
           screen' = IF outcome = "success" THEN "processSuccess" ELSE "error"
    /\ UNCHANGED <<selectedFiles, uploadsInFlight, processTimers, viewerChecks, statusChecks,
                   processRequests, uploadSuccesses, uploadKeeps>>

\* openViewer(), offered on processing success: a HEAD request to /viewer.
OpenViewer ==
    /\ screen = "processSuccess"
    /\ viewerChecks = 0
    /\ viewerChecks' = viewerChecks + 1
    /\ UNCHANGED <<selectedFiles, screen, uploadsInFlight, processTimers, processInFlight,
                   statusChecks, processRequests, uploadSuccesses, uploadKeeps>>

\* The HEAD request settles: the viewer opens in a new tab, or
\* showViewerError when the request failed or the popup was blocked.
OpenViewerSettles ==
    /\ viewerChecks > 0
    /\ viewerChecks' = viewerChecks - 1
    /\ \E opened \in BOOLEAN :
           screen' = IF opened THEN screen ELSE "viewerError"
    /\ UNCHANGED <<selectedFiles, uploadsInFlight, processTimers, processInFlight,
                   statusChecks, processRequests, uploadSuccesses, uploadKeeps>>

\* checkServerStatus(), offered by showViewerError: three requests, one of
\* them a POST to /api/process.
CheckServerStatus ==
    /\ screen = "viewerError"
    /\ Len(processRequests) < MaxProcessRequests
    /\ screen' = "loading"
    /\ processRequests' = Append(processRequests, "checkServerStatus")
    /\ statusChecks' = statusChecks + 1
    /\ UNCHANGED <<selectedFiles, uploadsInFlight, processTimers, processInFlight,
                   viewerChecks, uploadSuccesses, uploadKeeps>>

\* The three requests of checkServerStatus have settled: the status report.
StatusSettles ==
    /\ statusChecks > 0
    /\ statusChecks' = statusChecks - 1
    /\ screen' = "statusReport"
    /\ UNCHANGED <<selectedFiles, uploadsInFlight, processTimers, processInFlight,
                   viewerChecks, processRequests, uploadSuccesses, uploadKeeps>>

\* location.reload(), offered with an error, on processing success, by
\* showViewerError and with the status report: a new page.
Reload ==
    /\ screen \in {"error", "processSuccess", "viewerError", "statusReport"}
    /\ selectedFiles' = <<>>
    /\ screen' = "initial"
    /\ uploadsInFlight' = 0
    /\ processTimers' = 0
    /\ processInFlight' = 0
    /\ viewerChecks' = 0
    /\ statusChecks' = 0
    /\ processRequests' = <<>>
    /\ uploadSuccesses' = 0
    /\ UNCHANGED uploadKeeps

\* The upload page as loaded.
InitUpload ==
    /\ UploadIdle
    /\ AlignerIdle
    /\ BinnerIdle
    /\ BondIdle
    /\ AnalysisIdle
    /\ ChartIdle
    /\ ViewerIdle

NextUpload ==
    \/ HandleFiles
    \/ ClearSelectedFiles
    \/ UploadFiles
    \/ UploadSettles
    \/ ProcessFiles
    \/ ProcessSettles
    \/ OpenViewer
    \/ OpenViewerSettles
    \/ CheckServerStatus
    \/ StatusSettles
    \/ Reload

SpecUpload == InitUpload /\ [][NextUpload]_vars

-----------------------------------------------------------------------------
(* Claims about the temporal aligner *)

\* The flag a caller reads from a returned value: stored samples carry no
\* interpolated field (undefined, falsy).
Interpolated(r) == r.kind = "new" /\ r.obj.interpolated

\* num/den lies between the stored values a and b, inclusive (den > 0).
Between(num, den, a, b) ==
    /\ den > 0
    /\ (IF a <= b THEN a ELSE b) * den <= num
    /\ num <= (IF a <= b THEN b ELSE a) * den

\* C1: find_sample at a time equal to a stored sample's time returns that
\* stored sample itself, not a newly built record flagged interpolated.
C1_ExactAtKnots ==
    call.op = "find_sample" =>
        \A i \in 1..Len(excitationData) :
            excitationData[i].time_fs = call.t =>
                /\ returned.kind = "stored"
                /\ returned.index = i
                /\ ~Interpolated(returned)

\* C3: below the first sample's time find_sample returns the first stored
\* sample, above the last sample's time the last stored sample, neither
\* flagged interpolated.
C3_Clamping ==
    (call.op = "find_sample" /\ Len(excitationData) >= 1) =>
        /\ call.t < excitationData[1].time_fs =>
               (returned.kind = "stored" /\ returned.index = 1 /\ ~Interpolated(returned))
        /\ call.t > excitationData[Len(excitationData)].time_fs =>
               (returned.kind = "stored" /\ returned.index = Len(excitationData)
                    /\ ~Interpolated(returned))

C3_Witness ==
    /\ call.op = "find_sample"
    /\ Len(excitationData) >= 2
    /\ call.t > excitationData[Len(excitationData)].time_fs
    /\ returned.kind = "stored"
    /\ returned.index = Len(excitationData)

\* C4: for a query strictly between two consecutive sample times, every
\* interpolated field lies between the two bracketing stored values
\* (inclusive) and the result is flagged interpolated.
C4_InterpolationBounded ==
    call.op = "find_sample" =>
        \A i \in 1..(Len(excitationData) - 1) :
            (excitationData[i].time_fs < call.t /\ call.t < excitationData[i + 1].time_fs) =>
                LET b == excitationData[i]
                    a == excitationData[i + 1]
                    o == returned.obj
                IN  /\ returned.kind = "new"
                    /\ o.interpolated
                    /\ Between(o.s1_energy, o.den, b.s1_energy, a.s1_energy)
                    /\ Between(o.s1_oscillator, o.den, b.s1_oscillator, a.s1_oscillator)
                    /\ Between(o.s2_energy, o.den, b.s2_energy, a.s2_energy)
                    /\ Between(o.s2_oscillator, o.den, b.s2_oscillator, a.s2_oscillator)

C4_Witness ==
    /\ call.op = "find_sample"
    /\ returned.kind = "new"
    /\ \E i \in 1..(Len(excitationData) - 1) :
           /\ excitationData[i].time_fs > 0
           /\ excitationData[i].time_fs < call.t
           /\ call.t < excitationData[i + 1].time_fs
           /\ excitationData[i].s1_oscillator * returned.obj.den < returned.obj.s1_oscillator
           /\ returned.obj.s1_oscillator < excitationData[i + 1].s1_oscillator * returned.obj.den

\* C5: on the example series find_sample(150) gives oscillator_1 = 0.40 and
\* oscillator_2 = 0.15 (units of 1/100), so state 1 dominates at t = 150.
C5_Example ==
    (excitationData = ExampleSeries /\ call = [op |-> "find_sample", t |-> 150]) =>
        /\ returned.kind = "new"
        /\ returned.obj.s1_oscillator = 40 * returned.obj.den
        /\ returned.obj.s2_oscillator = 15 * returned.obj.den
        /\ returned.obj.s1_oscillator > returned.obj.s2_oscillator

C5_Witness ==
    /\ excitationData = ExampleSeries
    /\ call = [op |-> "find_sample", t |-> 150]
    /\ returned.kind = "new"
    /\ returned.obj.den = 100

\* C6: find_nearest on a non-empty series returns a sample at minimal
\* distance from t, and returns none exactly when that minimal distance
\* exceeds the gap; a sample at distance exactly the gap is returned.
C6_NearestWithinGap ==
    (call.op = "find_nearest" /\ Len(excitationData) >= 1) =>
        LET dist(i) == Abs(excitationData[i].time_fs - call.t)
            m == Min({dist(i) : i \in 1..Len(excitationData)})
        IN  /\ (returned.kind = "null") <=> (m > NearestGapFs)
            /\ returned.kind = "stored" => dist(returned.index) = m

-----------------------------------------------------------------------------
(* Claims about the display ceiling and the stored series *)

\* The true observed maximum of the stored series, in 1/100000: the largest
\* oscillator strength or synthesized intensity of any sample.
ObservedMaximum ==
    Max(UNION { {excitationData[i].s1_oscillator * 1000, excitationData[i].s2_oscillator * 1000}
                    \cup Range(generateSpectrum(energyRange, storedExcitation(excitationData, i)).values) :
                i \in 1..Len(excitationData) })

\* The least integer (in 1/100000) not below 1.2 times the maximum m.
CeilOfPadded(m) == ((m * 12 + 999999) \div 1000000) * 100000

\* The fixed breakpoints 0.1, 0.5, 1.0, 2.0 and 5.0.
FixedBreakpoints == {10000, 50000, 100000, 200000, 500000}

\* b is not below 1.2 times the maximum m.
CoversPadded(b, m) == b * 10 >= m * 12

\* C15 as stated: for a non-empty series the ceiling is not below 1.2 times
\* the observed maximum and is the smallest member of
\* {0.1, 0.5, 1.0, 2.0, 5.0, ceil(1.2 * maximum)} with that property.
C15_SmallestBreakpoint ==
    (globalYAxisMax # Null /\ Len(excitationData) > 0) =>
        LET m == ObservedMaximum
            breakpoints == FixedBreakpoints \cup {CeilOfPadded(m)}
        IN  /\ CoversPadded(globalYAxisMax[1], m)
            /\ globalYAxisMax[1] \in breakpoints
            /\ \A b \in breakpoints : CoversPadded(b, m) => globalYAxisMax[1] <= b

\* C15 amended: for a non-empty series the ceiling is not below 1.2 times the
\* observed maximum; it is the smallest of the fixed breakpoints 0.1, 0.5,
\* 1.0, 2.0, 5.0 not below 1.2 times the maximum when that is at most 5.0,
\* and ceil(1.2 * maximum) when it is above 5.0.
C15_CeilingCoversMaximum ==
    (globalYAxisMax # Null /\ Len(excitationData) > 0) =>
        LET m == ObservedMaximum
        IN  /\ CoversPadded(globalYAxisMax[1], m)
            /\ IF CoversPadded(500000, m)
               THEN /\ globalYAxisMax[1] \in FixedBreakpoints
                    /\ \A b \in FixedBreakpoints : CoversPadded(b, m) => globalYAxisMax[1] <= b
               ELSE globalYAxisMax[1] = CeilOfPadded(m)

\* The ceiling is 5.0 for a series whose maximum is a spectrum peak above
\* every oscillator strength and whose padded maximum lies between 2 and 3.
C15_Witness ==
    /\ globalYAxisMax = Some(500000)
    /\ Len(excitationData) > 0
    /\ CeilOfPadded(ObservedMaximum) = 300000
    /\ \A i \in 1..Len(excitationData) :
           /\ excitationData[i].s1_oscillator * 1000 < ObservedMaximum
           /\ excitationData[i].s2_oscillator * 1000 < ObservedMaximum

\* C16: the ceiling changes only in a step that sets a series, every other
\* step (lookup, spectrum synthesis) leaves it as it is, and once a series is
\* set the ceiling is the one computed from the series now stored.
C16_CeilingFollowsSeries ==
    /\ [](globalYAxisMax # Null =>
             globalYAxisMax = Some(calculateGlobalYAxisMax(excitationData)))
    /\ [][call'.op # "setData" => globalYAxisMax' = globalYAxisMax]_vars

\* A two-sample series is set whose ceiling is 0.5, and a spectrum has been
\* synthesized since.
C16_Witness ==
    /\ call.op = "spectrum"
    /\ Len(spectrum.values) > 0
    /\ globalYAxisMax = Some(50000)
    /\ Len(excitationData) = 2

\* C17: a find_sample, find_nearest or spectrum-synthesis step leaves the
\* stored excitation series and the trajectory frames as they are, also when
\* the sample it returns is an interpolated one.
C17_QueriesLeaveSeries ==
    [][call'.op \in {"find_sample", "find_nearest", "spectrum"} =>
          /\ excitationData' = excitationData
          /\ chartTrajectoryData' = chartTrajectoryData]_vars

\* A spectrum has been synthesized from an interpolated sample of a loaded
\* two-sample series.
C17_Witness ==
    /\ call.op = "spectrum"
    /\ returned.kind = "new"
    /\ returned.obj.interpolated
    /\ Len(spectrum.values) > 0
    /\ Len(excitationData) = 2
    /\ chartTrajectoryData # Null

-----------------------------------------------------------------------------
(* Claims about the correlation binner *)

\* The bins published by the last chart build.
Bins == binData[1]

RECURSIVE sumTotals(_)
sumTotals(bins) == IF bins = <<>> THEN 0 ELSE Head(bins).totalCount + sumTotals(Tail(bins))

\* The bins whose allFrames holds the correlated frame d.
BinsHolding(d) == {b \in 1..Len(Bins) : d \in Range(Bins[b].allFrames)}

\* The members of a bin labelled state1-dominant, and those labelled state2-dominant.
S1Members(bin) == {d \in Range(bin.allFrames) : d.s1_dominant}
S2Members(bin) == {d \in Range(bin.allFrames) : ~d.s1_dominant}

\* The correlated frames whose twist angle and two oscillator values are
\* finite numbers.
ValidCorrelated ==
    {k \in 1..Len(correlationData) :
        /\ correlationData[k].twist_angle.type = "number"
        /\ correlationData[k].s1_oscillator.type = "number"
        /\ correlationData[k].s2_oscillator.type = "number"}

\* C2: after a bin build every valid correlated frame is a member of exactly
\* one emitted bin, and the bins' total counts sum to the number of valid
\* correlated frames (stated for the builds all of whose correlated frames
\* are valid).
C2_BinningCoverage ==
    (binData # Null /\ Cardinality(ValidCorrelated) = Len(correlationData)) =>
        /\ \A k \in ValidCorrelated :
               Cardinality(BinsHolding(correlationData[k])) = 1
        /\ sumTotals(Bins) = Len(correlationData)

\* C7: a correlated frame is labelled state1-dominant only when oscillator_1
\* is strictly greater than oscillator_2; a frame with equal oscillators is
\* labelled state2-dominant and counted in its bin's state2 count.
C7_DominanceTieRule ==
    binData # Null =>
        /\ \A k \in 1..Len(correlationData) :
               LET d == correlationData[k]
               IN  /\ d.s1_dominant =>
                          (d.s1_oscillator.type = "number" /\ d.s2_oscillator.type = "number"
                              /\ d.s1_oscillator.val > d.s2_oscillator.val)
                   /\ d.s1_oscillator = d.s2_oscillator => ~d.s1_dominant
        /\ \A b \in 1..Len(Bins) :
               LET ties == {j \in 1..Len(Bins[b].allFrames) :
                               Bins[b].allFrames[j].s1_oscillator = Bins[b].allFrames[j].s2_oscillator}
                   s2 == {j \in 1..Len(Bins[b].allFrames) : ~Bins[b].allFrames[j].s1_dominant}
               IN  /\ ties \subseteq s2
                   /\ Bins[b].s2DominantCount = Cardinality(s2)
                   /\ Bins[b].s1DominantCount = Len(Bins[b].allFrames) - Cardinality(s2)

C7_Witness ==
    /\ binData # Null
    /\ \E b \in 1..Len(Bins) :
           /\ Bins[b].s2DominantCount = 1
           /\ Bins[b].s1DominantCount >= 1
           /\ \E d \in Range(Bins[b].allFrames) :
                  d.s1_oscillator = d.s2_oscillator /\ d.s1_oscillator.type = "number"

\* The descriptor gap of two binned frames.
TwistGap(f, g) == Abs(f.twist_angle.val - g.twist_angle.val)

\* C8: in a bin with both subsets non-empty the representative pair is one
\* state1 frame and one state2 frame of the bin, and its descriptor gap is at
\* most the gap of every other cross pair of the bin.
C8_PairMinimality ==
    binData # Null =>
        \A b \in 1..Len(Bins) :
            (S1Members(Bins[b]) # {} /\ S2Members(Bins[b]) # {}) =>
                \E f1 \in S1Members(Bins[b]), f2 \in S2Members(Bins[b]) :
                    /\ Bins[b].exampleS1Frame = Some(f1.frame_number)
                    /\ Bins[b].exampleS2Frame = Some(f2.frame_number)
                    /\ Bins[b].s1TwistAngle = Some(f1.twist_angle)
                    /\ Bins[b].s2TwistAngle = Some(f2.twist_angle)
                    /\ Bins[b].twistAngleDifference = Some(TwistGap(f1, f2))
                    /\ \A g1 \in S1Members(Bins[b]), g2 \in S2Members(Bins[b]) :
                           TwistGap(f1, f2) <= TwistGap(g1, g2)

C8_Witness ==
    /\ binData # Null
    /\ \E b \in 1..Len(Bins) :
           /\ Bins[b].twistAngleDifference # Null
           /\ \E g1 \in S1Members(Bins[b]), g2 \in S2Members(Bins[b]) :
                  Bins[b].twistAngleDifference[1] < TwistGap(g1, g2)

\* C9: in a bin whose state1 subset or state2 subset is empty, the
\* representative of the empty side is null and the descriptor gap is null.
C9_EmptySideNull ==
    binData # Null =>
        \A b \in 1..Len(Bins) :
            /\ S1Members(Bins[b]) = {} =>
                   /\ Bins[b].exampleS1Frame = Null
                   /\ Bins[b].s1TwistAngle = Null
                   /\ Bins[b].twistAngleDifference = Null
            /\ S2Members(Bins[b]) = {} =>
                   /\ Bins[b].exampleS2Frame = Null
                   /\ Bins[b].s2TwistAngle = Null
                   /\ Bins[b].twistAngleDifference = Null

C9_Witness ==
    /\ binData # Null
    /\ \E b \in 1..Len(Bins) :
           /\ S1Members(Bins[b]) = {}
           /\ Cardinality(S2Members(Bins[b])) >= 2
           /\ Bins[b].exampleS2Frame # Null
           /\ Bins[b].twistAngleDifference = Null

\* C11: every frame counted in a bin was matched with an excitation sample
\* within the time gap, and both oscillator values of that sample are finite
\* numbers: a frame whose matched oscillator is NaN is dropped, not binned.
C11_NonFiniteDropped ==
    binData # Null =>
        \A b \in 1..Len(Bins) : \A d \in Range(Bins[b].allFrames) :
            /\ \E k \in 1..Len(dmabnExcitationData) :
                   /\ Abs(dmabnExcitationData[k].time_fs - d.time_fs) < CorrelationGapFs
                   /\ dmabnExcitationData[k].s1_oscillator = d.s1_oscillator
                   /\ dmabnExcitationData[k].s2_oscillator = d.s2_oscillator
            /\ d.s1_oscillator.type = "number"
            /\ d.s2_oscillator.type = "number"

\* The correlated frames that are left when the frames without a numeric
\* twist angle are removed.
WellFormedCorrelated ==
    LET hasTwist(d) == d.twist_angle.type = "number"
    IN  SelectSeq(correlationData, hasTwist)

\* C12: a correlated frame whose twist angle is missing only removes that frame
\* from the counts: the bins published are the bins of the remaining frames,
\* with their totals.
C12_MalformedRecordOnlyDropped ==
    (/\ binData # Null
     /\ \A k \in 1..Len(correlationData) :
            /\ correlationData[k].s1_oscillator.type = "number"
            /\ correlationData[k].s2_oscillator.type = "number")
        => Bins = buildBins(WellFormedCorrelated)

-----------------------------------------------------------------------------
(* Claims about the analysis request *)

\* The bins a complete build makes of the data now held by window.dmabnCharts.
BinsOfCurrentData == buildBins(correlate(geometryData, dmabnExcitationData, 1, <<>>))

\* C13: the published bin set changes in one step only, from the previous
\* complete set to the complete set of the running build; while the build is
\* filling its local result the published set stays what it was.
C13_AtomicPublish ==
    [][binData' # binData =>
          /\ chartBuild.pc = "loop"
          /\ chartBuild'.pc = "idle"
          /\ binData' = Some(BinsOfCurrentData)]_vars

\* A build is half way: one bin is in the local result, another is still to
\* be pushed, and nothing of it is published.
C13_Witness ==
    /\ chartBuild.pc = "loop"
    /\ chartBuild.i < numBinsOf(correlationData)
    /\ Len(chartBuild.binData) >= 1
    /\ Len(chartBuild.binData) < Len(BinsOfCurrentData)
    /\ binData = Null

\* C14: once a successful request has completed (the popup exists, no chart
\* build is scheduled or running) the published bins are the bins of the data
\* the request set; stated for the requests served after bins were first
\* published.
C14_RequestRebuilds ==
    (/\ chartPopup
     /\ chartTimers = 0
     /\ chartBuild.pc = "idle"
     /\ binData # Null
     /\ Len(dmabnExcitationData) > 0)
        => binData = Some(BinsOfCurrentData)

-----------------------------------------------------------------------------
(* Claims about bond inference *)

\* The threshold (1/10 Angstrom) that applies to the pair (i, j).
ApplicableThreshold(i, j) ==
    IF atoms[i] = "H" \/ atoms[j] = "H" THEN maxBondDistanceH ELSE maxBondDistanceDefault

\* The unordered pairs i < j whose distance is strictly below the threshold.
ExpectedBonds ==
    { p \in (1..Len(coords)) \X (1..Len(coords)) :
          /\ p[1] < p[2]
          /\ calculateDistanceSq(coords[p[1]], coords[p[2]])
                 < ApplicableThreshold(p[1], p[2]) * ApplicableThreshold(p[1], p[2]) }

\* C10: bond inference reports the pair (i, j) iff its distance is strictly
\* below the applicable threshold (the hydrogen threshold when either atom is
\* hydrogen), and reports each unordered pair at most once.
C10_BondIffBelowThreshold ==
    bondsCreated =>
        /\ Range(bondMeshes) = ExpectedBonds
        /\ Len(bondMeshes) = Cardinality(ExpectedBonds)

C10_Witness ==
    /\ bondsCreated
    /\ \E i, j \in 1..Len(coords) :
           /\ i < j
           /\ "H" \in {atoms[i], atoms[j]}
           /\ atoms[i] # atoms[j]
           /\ calculateDistanceSq(coords[i], coords[j]) = maxBondDistanceH * maxBondDistanceH
           /\ <<i, j>> \notin Range(bondMeshes)
    /\ \E i, j \in 1..Len(coords) :
           /\ atoms[i] = "C" /\ atoms[j] = "C"
           /\ calculateDistanceSq(coords[i], coords[j]) > maxBondDistanceH * maxBondDistanceH
           /\ <<i, j>> \in Range(bondMeshes)

-----------------------------------------------------------------------------
(* Claims about loading and frame changes *)

\* The first frame of the stored trajectory.
FirstFrame == trajectoryData[1][1]

\* The frame the viewer shows.
ShownFrame == trajectoryData[1][currentFrame + 1]

\* C18: the bonded pairs are those inferred from the first frame when the
\* structure was set up, and no step other than the load (no nextFrame,
\* previousFrame, setFrame or playback tick) adds or removes a pair.
C18_BondsFixedAfterSetup ==
    /\ [](loadResult = Some(TRUE) =>
             bondMeshes = createBonds(FirstFrame.atoms, FirstFrame.coords))
    /\ [][loadResult' = loadResult => bondMeshes' = bondMeshes]_vars

\* The viewer shows a later frame whose own distances give another bond set
\* than the one inferred from the first frame.
C18_Witness ==
    /\ loadResult = Some(TRUE)
    /\ currentFrame > 0
    /\ bondMeshes # <<>>
    /\ Len(ShownFrame.atoms) = Len(ShownFrame.coords)
    /\ createBonds(ShownFrame.atoms, ShownFrame.coords) # bondMeshes

\* C19: once a trajectory is stored whose first frame has different numbers
\* of atom symbols and coordinates, the structure setup has failed with an
\* error and there is no bond set.
C19_MismatchRejected ==
    (trajectoryData # Null /\ Len(FirstFrame.atoms) # Len(FirstFrame.coords)) =>
        /\ errorShown
        /\ ~bondsCreated
        /\ bondMeshes = <<>>

\* C20: after a load that returned false the stored trajectory, excitation
\* series and current frame are the ones from before the load, and the error
\* has been shown.
C20_FailedLoadLeavesState ==
    loadResult = Some(FALSE) =>
        /\ errorShown
        /\ trajectoryData = Null
        /\ viewerExcitationData = Null
        /\ currentFrame = 0

-----------------------------------------------------------------------------
(* Claims about playback and frame navigation *)

C23_OneTimerPending == playTimers <= 1

\* C24: while the viewer is paused, a playback timer that fires does not
\* change the current frame.
C24_PausedTimerInert ==
    [][(~isPlaying /\ playTimers' < playTimers) => currentFrame' = currentFrame]_vars

\* The number of frames loaded.
NumFrames == Len(trajectoryData[1])

\* C25: with a trajectory loaded the current frame is within 0..N-1;
\* nextFrame at N-1 gives 0, previousFrame at 0 gives N-1, and setFrame(k)
\* with k outside 0..N-1 leaves the current frame as it is.
C25_FrameInRange ==
    /\ [](trajectoryData # Null => currentFrame \in 0..(NumFrames - 1))
    /\ [][trajectoryData # Null =>
            /\ (nextFrame /\ currentFrame = NumFrames - 1) => currentFrame' = 0
            /\ (previousFrame /\ currentFrame = 0) => currentFrame' = NumFrames - 1
            /\ \A k \in -1..MaxTrajFrames :
                   (setFrame(k) /\ (k < 0 \/ k >= NumFrames)) => currentFrame' = currentFrame]_vars

\* The last frame of a trajectory of at least two frames is shown while
\* playback has been started.
C25_Witness ==
    /\ trajectoryData # Null
    /\ NumFrames >= 2
    /\ currentFrame = NumFrames - 1
    /\ playTimers > 0

-----------------------------------------------------------------------------
(* Claims about the charts of the viewer page *)

\* C26: once the spectrum chart has been requested (and the charts hold a
\* non-empty series), a frame change to a frame at or beyond the 5000 fs
\* excitation start leaves a spectrum chart that shows that frame.
C26_ChartFollowsFrame ==
    [][(/\ spectrumRequested
        /\ chartsHaveData
        /\ Len(excitationData) > 0
        /\ currentFrame' # currentFrame
        /\ frameTimeFs(currentFrame') >= excitationStartFs)
       => (spectrumChart' # Null /\ spectrumChart'[1].frame = currentFrame')]_vars

\* C27: once loading has succeeded, a chart request leaves the charts
\* holding the loaded excitation series and the ceiling computed from it.
C27_RequestsUseLoadedSeries ==
    requestedAfterLoad =>
        /\ chartsHaveData
        /\ excitationData = viewerExcitationData[1]
        /\ globalYAxisMax = Some(calculateGlobalYAxisMax(viewerExcitationData[1]))

\* Two lookup results stand for the same energies and oscillator strengths.
sameExcitation(data, r1, r2) ==
    LET a == excitationOf(data, r1)
        b == excitationOf(data, r2)
    IN  /\ a.s1_energy * b.den = b.s1_energy * a.den
        /\ a.s1_oscillator * b.den = b.s1_oscillator * a.den
        /\ a.s2_energy * b.den = b.s2_energy * a.den
        /\ a.s2_oscillator * b.den = b.s2_oscillator * a.den

\* C28: the sample a spectrum chart is drawn from, whether the chart was
\* created or updated in place, is the sample an in-place update uses for
\* the frame it shows.
C28_CreationMatchesUpdate ==
    spectrumChart # Null =>
        sameExcitation(excitationData, spectrumChart[1].sample,
                       updateSample(excitationData, frameTimeFs(spectrumChart[1].frame)))

-----------------------------------------------------------------------------
(* Claims about the upload page *)

\* C29: no two selected files have the same lower-cased, trimmed name; a
\* file whose normalized name is present replaces that entry in place, any
\* other file is appended, and clearSelectedFiles empties the list.
C29_NoDuplicateNames ==
    /\ [](\A i, j \in 1..Len(selectedFiles) :
             i # j => normalizedName(selectedFiles[i].name) # normalizedName(selectedFiles[j].name))
    /\ [][/\ \A f \in UploadFileSet :
               handleFiles(<<f>>) =>
                   LET S == {i \in 1..Len(selectedFiles) :
                                normalizedName(selectedFiles[i].name) = normalizedName(f.name)}
                   IN  IF S # {}
                       THEN /\ Len(selectedFiles') = Len(selectedFiles)
                            /\ \E i \in S : selectedFiles' = [selectedFiles EXCEPT ![i] = f]
                       ELSE selectedFiles' = Append(selectedFiles, f)
           /\ ClearSelectedFiles => selectedFiles' = <<>>]_vars

\* A file selected under one spelling of a name has been replaced in place
\* by one under another spelling, next to a second file.
C29_Witness ==
    /\ Len(selectedFiles) = 2
    /\ selectedFiles[1].name = NameCoorsUpper
    /\ selectedFiles[2].name = NameS1

\* C30: every /api/process request is sent by processFiles, and there are
\* no more of them than /api/upload requests that returned success.
C30_ProcessOnlyAfterUpload ==
    /\ \A i \in 1..Len(processRequests) : processRequests[i] = "processFiles"
    /\ Len(processRequests) <= uploadSuccesses

====
